---- MODULE Spec2Model ----
(***************************************************************************)
(* Model of logStatus (shiki-01/logStatus): the StatusSchemaManager        *)
(* registry (class -> code -> message, plus the global silent flag) and    *)
(* the logStatus reporter that classifies a code, resolves its message,    *)
(* writes console lines and returns the response envelope.                 *)
(***************************************************************************)
EXTENDS Integers, Sequences, FiniteSets, TLC

VARIABLES schema, silentMode, last

vars == <<schema, silentMode, last>>

(***************************************************************************)
(* JavaScript values.  A value is a record [kind, text]: kind is the       *)
(* runtime type, text the content (for an Error object, its .message).     *)
(***************************************************************************)
Str(s) == [kind |-> "string", text |-> s]

Undefined == [kind |-> "undefined", text |-> ""]

Null == [kind |-> "null", text |-> ""]

JSTrue == [kind |-> "boolean", text |-> "true"]

JSFalse == [kind |-> "boolean", text |-> "false"]

JSZero == [kind |-> "number", text |-> "0"]

ErrorObj(m) == [kind |-> "Error", text |-> m]

EmptyObject == [kind |-> "object", text |-> "{}"]

\* A field an object literal does not have (as opposed to one set to undefined).
NoField == [kind |-> "nofield", text |-> ""]

\* JavaScript truthiness, as used by `if (error)`.
Truthy(v) ==
    CASE v.kind = "undefined" -> FALSE
      [] v.kind = "null" -> FALSE
      [] v.kind = "string" -> v.text # ""
      [] v.kind = "number" -> v.text \notin {"0", "NaN"}
      [] v.kind = "boolean" -> v.text = "true"
      [] OTHER -> TRUE

(***************************************************************************)
(* The registry.  `schema` is the StatusSchema object: a sequence of       *)
(* [type, codes] entries in key insertion order (the order Object.keys     *)
(* returns), codes being the bucket: a function code -> message.           *)
(***************************************************************************)
Classes == {"SUCCESS", "WARN", "ERROR"}

NoBucket == [k \in {} |-> ""]

InitialSchema ==
    << [type |-> "SUCCESS", codes |-> (200 :> "Success")],
       [type |-> "WARN", codes |-> (300 :> "Warning" @@ 301 :> "Redirect"
                                     @@ 302 :> "Found" @@ 304 :> "Not Modified")],
       [type |-> "ERROR", codes |-> (400 :> "Bad Request" @@ 401 :> "Unauthorized"
                                      @@ 403 :> "Forbidden" @@ 404 :> "Not Found"
                                      @@ 500 :> "Internal Server Error")] >>

\* Object.keys(schema)
ObjectKeys(s) == [i \in 1..Len(s) |-> s[i].type]

HasType(s, type) == \E i \in 1..Len(s) : s[i].type = type

\* schema[type], or the empty function when the key is absent
Bucket(s, type) ==
    IF HasType(s, type)
    THEN s[CHOOSE i \in 1..Len(s) : s[i].type = type].codes
    ELSE NoBucket

\* schema[type]?.[code] is an entry object
HasEntry(s, type, code) == code \in DOMAIN Bucket(s, type)

getSchema(s) == s

getSilentMode(flag) == flag

\* getStatusMessage: the message as a string value, or undefined
getStatusMessage(s, type, code) ==
    IF HasEntry(s, type, code) THEN Str(Bucket(s, type)[code]) ELSE Undefined

\* updateStatus, step 1: `if (!this.schema[type]) this.schema[type] = {}`.
\* A new key is appended to the object's key order.
EnsureBucket(s, type) ==
    IF HasType(s, type) THEN s ELSE Append(s, [type |-> type, codes |-> NoBucket])

\* Variant of SetEntry that keeps the message of a code already registered.
SetEntryKeepingOld(s, type, code, message) ==
    [i \in 1..Len(s) |->
        IF s[i].type = type
        THEN [type |-> type,
              codes |-> [k \in (DOMAIN s[i].codes) \cup {code} |->
                            IF k \in DOMAIN s[i].codes THEN s[i].codes[k] ELSE message]]
        ELSE s[i]]

\* this.schema[type][code] = { message }
SetEntry(s, type, code, message) ==
    [i \in 1..Len(s) |->
        IF s[i].type = type
        THEN [type |-> type,
              codes |-> [k \in (DOMAIN s[i].codes) \cup {code} |->
                            IF k = code THEN message ELSE s[i].codes[k]]]
        ELSE s[i]]

updateStatus(s, type, code, message) ==
    SetEntry(EnsureBucket(s, type), type, code, message)

\* delete this.schema[type][code]
DeleteEntry(s, type, code) ==
    [i \in 1..Len(s) |->
        IF s[i].type = type
        THEN [type |-> type,
              codes |-> [k \in (DOMAIN s[i].codes) \ {code} |-> s[i].codes[k]]]
        ELSE s[i]]

\* Variant of DropEmptyBucket that leaves an emptied bucket in place.
KeepEmptyBucket(s, type) == s

\* if (Object.keys(this.schema[type]).length === 0) delete this.schema[type]
DropEmptyBucket(s, type) ==
    IF Cardinality(DOMAIN Bucket(s, type)) = 0
    THEN SelectSeq(s, LAMBDA e : e.type # type)
    ELSE s

removeStatus(s, type, code) ==
    IF HasType(s, type)
    THEN DropEmptyBucket(DeleteEntry(s, type, code), type)
    ELSE s

(***************************************************************************)
(* logStatus                                                               *)
(***************************************************************************)
NoType == "undefined"

RECURSIVE FindKey(_, _, _)
\* Array.prototype.find over Object.keys(schema), from index i on
FindKey(s, code, i) ==
    IF i > Len(s) THEN NoType
    ELSE IF code \in DOMAIN s[i].codes THEN s[i].type
    ELSE FindKey(s, code, i + 1)

\* Variant of statusTypeOf that scans a hard-coded list of the classes.
statusTypeFixedOrder(s, code) ==
    IF code \in DOMAIN Bucket(s, "SUCCESS") THEN "SUCCESS"
    ELSE IF code \in DOMAIN Bucket(s, "WARN") THEN "WARN"
    ELSE IF code \in DOMAIN Bucket(s, "ERROR") THEN "ERROR"
    ELSE NoType

\* const statusType = Object.keys(statusSchema).find(key => statusSchema[key]?.[status.code])
statusTypeOf(s, code) == FindKey(s, code, 1)

\* the switch on statusType taken when the registry has no message
FallbackMessage(statusType) ==
    CASE statusType = "SUCCESS" -> Str("Success")
      [] statusType = "WARN" -> Str("Warning")
      [] statusType = "ERROR" -> Str("Error")
      [] OTHER -> Str("Unknown status")

\* Variant of logMessageOf that tests `!logMessage`, so that an empty override
\* counts as none.
logMessageOfFalsy(s, statusType, status) ==
    IF ~Truthy(status.message)
    THEN IF statusType # NoType /\ HasEntry(s, statusType, status.code)
         THEN Str(Bucket(s, statusType)[status.code])
         ELSE FallbackMessage(statusType)
    ELSE status.message

\* let logMessage = status.message; if (logMessage === undefined || logMessage === null) ...
logMessageOf(s, statusType, status) ==
    IF status.message = Undefined \/ status.message = Null
    THEN IF statusType # NoType /\ HasEntry(s, statusType, status.code)
         THEN Str(Bucket(s, statusType)[status.code])
         ELSE FallbackMessage(statusType)
    ELSE status.message

\* Variant of isSilentOf that computes `silent || getSilentMode()`.
isSilentOfEither(silent, flag) == silent = JSTrue \/ getSilentMode(flag)

\* const isSilent = silent !== undefined ? silent : statusSchemaManager.getSilentMode()
isSilentOf(silent, flag) ==
    IF silent # Undefined THEN silent = JSTrue ELSE getSilentMode(flag)

\* const errorMessage = error instanceof Error ? error.message : error
errorMessageOf(error) ==
    IF error.kind = "Error" THEN Str(error.text) ELSE error

\* message: T = {} as T  (the default applies when the argument is undefined)
PayloadOf(message) == IF message = Undefined THEN EmptyObject ELSE message

Line(stream, fmt, args) == [stream |-> stream, fmt |-> fmt, args |-> args]

NumberValue(n) == [kind |-> "number", text |-> ToString(n)]

\* Variant of DataEnvelope that also fills the error field.
DataEnvelopeWithError(status, data) ==
    [status |-> status, data |-> data, error |-> status.message]

\* return { status, data: message }
DataEnvelope(status, data) == [status |-> status, data |-> data, error |-> NoField]

\* return { status, error: ... }
ErrorEnvelope(status, error) == [status |-> status, data |-> NoField, error |-> error]

SuccessBranch(status, payload, isSilent) ==
    [env |-> DataEnvelope(status, payload),
     out |-> IF ~isSilent
             THEN << Line("log", "[SUCCESS] ${logMessage}", <<status.message>>),
                     Line("log", "  +-", <<payload>>) >>
             ELSE << >>]

WarnBranch(status, payload, isSilent) ==
    [env |-> DataEnvelope(status, payload),
     out |-> IF ~isSilent
             THEN << Line("warn", "[WARN] ${logMessage}", <<status.message>>),
                     Line("warn", "  +-", <<payload>>) >>
             ELSE << >>]

\* Variant of ErrorBranchLoud that reports the class fallback when no error is given.
ErrorBranchLoudFallback(status, payload, error) ==
    IF Truthy(error)
    THEN [env |-> [status |-> status, data |-> NoField, error |-> errorMessageOf(error)],
          out |-> << Line("error", "[ERROR] ${logMessage}", <<status.message>>),
                     Line("error", "  |-", <<payload>>),
                     Line("error", "  +- ${errorMessage}", <<errorMessageOf(error)>>) >>]
    ELSE [env |-> [status |-> status, data |-> NoField, error |-> Str("Error")],
          out |-> << Line("error", "[ERROR] ${logMessage}", <<status.message>>),
                     Line("error", "  +-", <<payload>>) >>]

\* the branch taken when output is not silenced
ErrorBranchLoud(status, payload, error) ==
    IF Truthy(error)
    THEN [env |-> ErrorEnvelope(status, errorMessageOf(error)),
          out |-> << Line("error", "[ERROR] ${logMessage}", <<status.message>>),
                     Line("error", "  |-", <<payload>>),
                     Line("error", "  +- ${errorMessage}", <<errorMessageOf(error)>>) >>]
    ELSE [env |-> ErrorEnvelope(status, status.message),
          out |-> << Line("error", "[ERROR] ${logMessage}", <<status.message>>),
                     Line("error", "  +-", <<payload>>) >>]

\* Variant of ErrorBranchSilent that does not look at the error argument.
ErrorBranchSilentNoError(status, payload, error) ==
    [env |-> [status |-> status, data |-> NoField, error |-> status.message],
     out |-> << >>]

\* the branch taken when output is silenced
ErrorBranchSilent(status, payload, error) ==
    IF Truthy(error)
    THEN [env |-> ErrorEnvelope(status, errorMessageOf(error)), out |-> << >>]
    ELSE [env |-> ErrorEnvelope(status, status.message), out |-> << >>]

ErrorBranch(status, payload, error, isSilent) ==
    IF ~isSilent
    THEN ErrorBranchLoud(status, payload, error)
    ELSE ErrorBranchSilent(status, payload, error)

\* Variant of InvalidBranch that reports the resolved message as the error.
InvalidBranchResolved(status, isSilent) ==
    [env |-> [status |-> status, data |-> NoField, error |-> status.message],
     out |-> IF ~isSilent
             THEN << Line("error", "[ERROR] Invalid status code: ${status.code}",
                          <<[kind |-> "number", text |-> ToString(status.code)]>>) >>
             ELSE << >>]

InvalidBranch(status, isSilent) ==
    [env |-> ErrorEnvelope(status, Str("Internal Server Error")),
     out |-> IF ~isSilent
             THEN << Line("error", "[ERROR] Invalid status code: ${status.code}",
                          <<NumberValue(status.code)>>) >>
             ELSE << >>]

\* Variant of RegistryAfterLookup that stores the resolved message in the entry
\* it was looked up for.
RegistryAfterLookupStoring(s, statusType, status, logMessage) ==
    IF statusType # NoType
    THEN SetEntry(s, statusType, status.code, logMessage.text)
    ELSE s

\* The registry object once logStatus is done with it.  statusSchema is the live
\* object getSchema returns, not a copy; logStatus reads it (the find over its
\* keys, the message of the entry) and assigns only to its own locals
\* logMessage and status.
RegistryAfterLookup(s, statusType, status, logMessage) == s

\* the registry a logStatus call leaves behind
schemaAfterLogStatus(s, status) ==
    LET statusSchema == getSchema(s)
        statusType == statusTypeOf(statusSchema, status.code)
        logMessage == logMessageOf(statusSchema, statusType, status)
    IN  RegistryAfterLookup(statusSchema, statusType, status, logMessage)

\* The whole function: [env |-> the returned envelope, out |-> the console lines].
logStatus(s, flag, status, message, error, silent) ==
    LET statusSchema == getSchema(s)
        statusType == statusTypeOf(statusSchema, status.code)
        logMessage == logMessageOf(statusSchema, statusType, status)
        status2 == [code |-> status.code, message |-> logMessage]
        payload == PayloadOf(message)
        isSilent == isSilentOf(silent, flag)
    IN  IF statusType = "SUCCESS" THEN SuccessBranch(status2, payload, isSilent)
        ELSE IF statusType = "ERROR" THEN ErrorBranch(status2, payload, error, isSilent)
        ELSE IF statusType = "WARN" THEN WarnBranch(status2, payload, isSilent)
        ELSE InvalidBranch(status2, isSilent)

(***************************************************************************)
(* The inputs the operations are called with.                              *)
(***************************************************************************)
\* codes given to updateStatus/removeStatus/getStatusMessage: 200 is the only
\* seeded SUCCESS code (removing it empties the bucket), 201 is not seeded
RegistryCodes == {200, 201}

\* codes given to logStatus: the above and 404, a seeded ERROR code
ReportCodes == RegistryCodes \cup {404}

UpdateMessages == {"Created"}

StatusMessages == {Undefined, Null, Str(""), Str("Custom")}

Payloads == {Undefined, [kind |-> "object", text |-> "{data}"]}

ErrorArgs == {Undefined, Str(""), Str("X"), ErrorObj("boom"), JSFalse, JSZero}

SilentArgs == {Undefined, JSTrue, JSFalse}

FromBoolean(b) == IF b THEN JSTrue ELSE JSFalse

NoStatus == [code |-> 0, message |-> Undefined]

NoEnvelope == [status |-> NoStatus, data |-> NoField, error |-> NoField]

\* `last` is the most recent call: its arguments (type, code, text for the
\* registry's methods; status, message, error for logStatus; silent for
\* setSilentMode and logStatus), its return value (ret for a registry method,
\* env for logStatus) and the console lines it wrote.
NoCall ==
    [op |-> "none", type |-> "", code |-> 0, text |-> "", status |-> NoStatus,
     message |-> Undefined, error |-> Undefined, silent |-> Undefined,
     ret |-> Undefined, env |-> NoEnvelope, out |-> << >>]

Init ==
    /\ schema = InitialSchema
    /\ silentMode = FALSE
    /\ last = NoCall

\* logStatus has returned its envelope and the caller has not yet gone on
Reported == last.op = "logStatus"

SetSilentMode(silent) ==
    /\ ~Reported
    /\ silentMode' = silent
    /\ last' = [NoCall EXCEPT !.op = "setSilentMode", !.silent = FromBoolean(silent)]
    /\ UNCHANGED schema

GetSilentMode ==
    /\ ~Reported
    /\ last' = [NoCall EXCEPT !.op = "getSilentMode",
                              !.ret = FromBoolean(getSilentMode(silentMode))]
    /\ UNCHANGED <<schema, silentMode>>

GetStatusMessage(type, code) ==
    /\ ~Reported
    /\ last' = [NoCall EXCEPT !.op = "getStatusMessage", !.type = type, !.code = code,
                              !.ret = getStatusMessage(schema, type, code)]
    /\ UNCHANGED <<schema, silentMode>>

UpdateStatus(type, code, message) ==
    /\ ~Reported
    /\ schema' = updateStatus(schema, type, code, message)
    /\ last' = [NoCall EXCEPT !.op = "updateStatus", !.type = type, !.code = code,
                              !.text = message]
    /\ UNCHANGED silentMode

RemoveStatus(type, code) ==
    /\ ~Reported
    /\ schema' = removeStatus(schema, type, code)
    /\ last' = [NoCall EXCEPT !.op = "removeStatus", !.type = type, !.code = code]
    /\ UNCHANGED silentMode

LogStatus(status, message, error, silent) ==
    LET r == logStatus(schema, silentMode, status, message, error, silent)
    IN  /\ ~Reported
        /\ last' = [NoCall EXCEPT !.op = "logStatus", !.status = status,
                                  !.message = message, !.error = error,
                                  !.silent = silent, !.env = r.env, !.out = r.out]
        /\ schema' = schemaAfterLogStatus(schema, status)
        /\ UNCHANGED silentMode

\* The caller takes the envelope and goes on to its next call (the program is
\* synchronous and single-threaded).
Return ==
    /\ Reported
    /\ last' = NoCall
    /\ UNCHANGED <<schema, silentMode>>

Next ==
    \/ \E silent \in BOOLEAN : SetSilentMode(silent)
    \/ GetSilentMode
    \/ \E type \in Classes, code \in RegistryCodes : GetStatusMessage(type, code)
    \/ \E type \in Classes, code \in RegistryCodes, message \in UpdateMessages :
          UpdateStatus(type, code, message)
    \/ \E type \in Classes, code \in RegistryCodes : RemoveStatus(type, code)
    \/ \E code \in ReportCodes, m \in StatusMessages, message \in Payloads,
          error \in ErrorArgs, silent \in SilentArgs :
          LogStatus([code |-> code, message |-> m], message, error, silent)
    \/ Return

Spec == Init /\ [][Next]_vars

(***************************************************************************)
(* Properties.  While Reported holds, `last` is a logStatus call and schema *)
(* and silentMode are the registry that call ran against.                  *)
(***************************************************************************)
\* the positions of the class keys under which `code` is registered
KeysWith(code) == {i \in 1..Len(schema) : code \in DOMAIN schema[i].codes}

\* the classes under which `code` is registered
ClassesWith(code) == {schema[i].type : i \in KeysWith(code)}

\* the first class, in the registry's key order, that registers `code`
FirstClassOf(code) ==
    IF KeysWith(code) = {} THEN "undefined"
    ELSE schema[CHOOSE i \in KeysWith(code) : \A j \in KeysWith(code) : i <= j].type

\* the first class, in the order SUCCESS, WARN, ERROR, that registers `code`
FirstFixedClassOf(code) ==
    IF "SUCCESS" \in ClassesWith(code) THEN "SUCCESS"
    ELSE IF "WARN" \in ClassesWith(code) THEN "WARN"
    ELSE IF "ERROR" \in ClassesWith(code) THEN "ERROR"
    ELSE "undefined"

\* the payload a call passes: the argument, or {} when it is left out
GivenPayload == IF last.message = Undefined THEN EmptyObject ELSE last.message

HasData(env) == env.data # NoField

HasError(env) == env.error # NoField

\* the envelope has the shape of class c
ShapedFor(c, env) ==
    IF c \in {"SUCCESS", "WARN"}
    THEN HasData(env) /\ ~HasError(env)
    ELSE ~HasData(env) /\ HasError(env)

\* the call was made with output silenced
Silenced == last.silent = JSTrue \/ (last.silent = Undefined /\ silentMode)

\* C1: the envelope logStatus returns has exactly one of data and error: data,
\* equal to the payload, when the code is classified SUCCESS or WARN, error when
\* it is classified ERROR or matches no class; status.code is the input code.
C1_ExactlyOneOfDataAndError ==
    Reported =>
        /\ HasData(last.env) # HasError(last.env)
        /\ FirstClassOf(last.status.code) \in {"SUCCESS", "WARN"}
              => last.env.data = GivenPayload /\ ~HasError(last.env)
        /\ FirstClassOf(last.status.code) \in {"ERROR", "undefined"}
              => HasError(last.env) /\ ~HasData(last.env)
        /\ last.env.status.code = last.status.code

C1_Witness ==
    /\ Reported
    /\ FirstClassOf(last.status.code) = "WARN"
    /\ last.message # Undefined
    /\ last.env.data = last.message
    /\ last.error = Str("X")

\* C2 as stated: updateStatus(c, k, m) followed by logStatus({code: k}) returns
\* status {code: k, message: m} in an envelope shaped for class c.
C2_UpdateThenReport ==
    [][ ( /\ last.op = "updateStatus"
          /\ last'.op = "logStatus"
          /\ last'.status = [code |-> last.code, message |-> Undefined] )
        => /\ last'.env.status = [code |-> last.code, message |-> Str(last.text)]
           /\ ShapedFor(last.type, last'.env) ]_vars

\* C2, amended: the same, provided no class that precedes c in the registry's
\* key order registers k.
C2_UpdateThenReportFirstClass ==
    [][ ( /\ last.op = "updateStatus"
          /\ last'.op = "logStatus"
          /\ last'.status = [code |-> last.code, message |-> Undefined]
          /\ FirstClassOf(last.code) = last.type )
        => /\ last'.env.status = [code |-> last.code, message |-> Str(last.text)]
           /\ ShapedFor(last.type, last'.env) ]_vars

\* logStatus reports, with the message updateStatus gave it, a code that only
\* updateStatus can have registered
C2_Witness ==
    /\ Reported
    /\ last.status = [code |-> 201, message |-> Undefined]
    /\ FirstClassOf(201) = "ERROR"
    /\ last.env.status = [code |-> 201, message |-> Str("Created")]
    /\ HasError(last.env)

\* the error argument as the envelope is to carry it
Stringified(x) == IF x.kind = "Error" THEN Str(x.text) ELSE x

\* C3: for a code classified ERROR and every supplied error value X (the empty
\* string, 0 and false included), the envelope's error is the stringified X,
\* silenced or not.
C3_SuppliedErrorIsReported ==
    ( /\ Reported
      /\ FirstClassOf(last.status.code) = "ERROR"
      /\ last.error # Undefined )
    => last.env.error = Stringified(last.error)

\* C4: a code registered in no class gets error "Internal Server Error" and no
\* data, whatever the other arguments; without a message override its
\* status.message is "Unknown status".
C4_UnclassifiedCode ==
    ( /\ Reported
      /\ ClassesWith(last.status.code) = {} )
    => /\ last.env.error = Str("Internal Server Error")
       /\ ~HasData(last.env)
       /\ last.status.message \in {Undefined, Null}
             => last.env.status.message = Str("Unknown status")

\* 200 is seeded, so it is in no class only after it was removed
C4_Witness ==
    /\ Reported
    /\ last.status.code = 200
    /\ ClassesWith(200) = {}
    /\ last.error = Str("X")
    /\ last.status.message = Str("Custom")
    /\ last.env.error = Str("Internal Server Error")

\* the message the registry holds for the class the code is classified in
RegisteredMessage(code) ==
    Str(schema[CHOOSE i \in KeysWith(code) : \A j \in KeysWith(code) : i <= j].codes[code])

\* C5: a status.message that is not null/absent (the empty string included) is
\* the envelope's status.message, for every code; the registry message and the
\* fallback are used only when status.message is null or absent.
C5_MessageOverride ==
    Reported =>
        IF last.status.message \in {Undefined, Null}
        THEN last.env.status.message =
                 IF ClassesWith(last.status.code) = {}
                 THEN Str("Unknown status")
                 ELSE RegisteredMessage(last.status.code)
        ELSE last.env.status.message = last.status.message

C5_Witness ==
    /\ Reported
    /\ last.status.message = Str("")
    /\ FirstClassOf(last.status.code) = "SUCCESS"
    /\ last.env.status.message = Str("")

\* what a call shows of the class c it classified its code in: the envelope's
\* shape, the console line when not silenced, the message when not overridden
ReportedAs(c) ==
    /\ ShapedFor(c, last.env)
    /\ ~Silenced => last.out[1].fmt = "[" \o c \o "] ${logMessage}"
    /\ last.status.message = Undefined
          => \E i \in KeysWith(last.status.code) :
                 /\ schema[i].type = c
                 /\ last.env.status.message = Str(schema[i].codes[last.status.code])

\* C6 as stated: a code registered under two or more classes is classified by
\* the first match in the order SUCCESS, WARN, ERROR.
C6_FixedScanOrder ==
    ( /\ Reported
      /\ Cardinality(ClassesWith(last.status.code)) >= 2 )
    => ReportedAs(FirstFixedClassOf(last.status.code))

\* a code registered under two or more classes is reported as the first class
\* in the registry's key order that registers it
ClassifiedByKeyOrder ==
    ( /\ Reported
      /\ Cardinality(ClassesWith(last.status.code)) >= 2 )
    => ReportedAs(FirstClassOf(last.status.code))

\* C6, amended: such a code is classified by the first match in the registry's
\* current key order, and updateStatus puts the key of a class that has no
\* bucket after the keys that exist.
C6_KeyOrderScan ==
    [][ /\ ClassifiedByKeyOrder'
        /\ ( /\ last'.op = "updateStatus"
             /\ \A i \in 1..Len(schema) : schema[i].type # last'.type )
           => /\ Len(schema') = Len(schema) + 1
              /\ schema'[Len(schema')].type = last'.type
              /\ \A i \in 1..Len(schema) : schema'[i].type = schema[i].type ]_vars

\* a code registered under SUCCESS and ERROR whose SUCCESS bucket was recreated
C6_Witness ==
    /\ Reported
    /\ ClassesWith(last.status.code) = {"SUCCESS", "ERROR"}
    /\ FirstClassOf(last.status.code) = "ERROR"
    /\ HasError(last.env)

\* C7: for a code classified ERROR, a call with no error argument returns an
\* error equal to the resolved message, which is the envelope's status.message:
\* the override when one was supplied, otherwise the registered message.
C7_ErrorDefaultsToMessage ==
    ( /\ Reported
      /\ FirstClassOf(last.status.code) = "ERROR"
      /\ last.error = Undefined )
    => /\ last.env.error = last.env.status.message
       /\ last.env.error =
             IF last.status.message \in {Undefined, Null}
             THEN RegisteredMessage(last.status.code)
             ELSE last.status.message

C7_Witness ==
    /\ Reported
    /\ FirstClassOf(last.status.code) = "ERROR"
    /\ last.error = Undefined
    /\ last.status.message = Undefined
    /\ ~Silenced
    /\ last.env.error = Str("Not Found")

\* the codes registered under class c in registry s
CodesOf(s, c) == DOMAIN Bucket(s, c)

\* C8: updateStatus(c, k, m) followed by removeStatus(c, k) leaves
\* getStatusMessage(c, k) absent; if (c, k) was the last entry of c the class key
\* is gone, otherwise the key and the other entries remain; removeStatus of a
\* pair that is not registered changes nothing.
C8_UpdateThenRemove ==
    [][ /\ ( /\ last.op = "updateStatus"
             /\ last'.op = "removeStatus"
             /\ last'.type = last.type
             /\ last'.code = last.code )
           => /\ getStatusMessage(schema', last.type, last.code) = Undefined
              /\ IF CodesOf(schema, last.type) = {last.code}
                 THEN ~HasType(schema', last.type)
                 ELSE /\ HasType(schema', last.type)
                      /\ CodesOf(schema', last.type) = CodesOf(schema, last.type) \ {last.code}
                      /\ \A k \in CodesOf(schema', last.type) :
                            Bucket(schema', last.type)[k] = Bucket(schema, last.type)[k]
        /\ ( /\ last'.op = "removeStatus"
             /\ last'.code \notin CodesOf(schema, last'.type) )
           => schema' = schema ]_vars

\* removeStatus has taken the last entry of SUCCESS, an entry only updateStatus
\* can have made, and the class key with it
C8_Witness ==
    /\ last.op = "removeStatus"
    /\ last.type = "SUCCESS"
    /\ last.code = 201
    /\ ~HasType(schema, "SUCCESS")
    /\ Len(schema) = 2

\* C9: a silenced call writes no console line, for any class, and returns the
\* envelope the same call returns when it is not silenced.
C9_SilenceKeepsEnvelope ==
    ( Reported /\ Silenced )
    => /\ last.out = << >>
       /\ last.env = logStatus(schema, FALSE, last.status, last.message,
                               last.error, Undefined).env
       /\ last.env = logStatus(schema, silentMode, last.status, last.message,
                               last.error, JSFalse).env
       /\ logStatus(schema, silentMode, last.status, last.message,
                    last.error, JSFalse).out # << >>

C9_Witness ==
    /\ Reported
    /\ last.silent = Undefined
    /\ silentMode
    /\ FirstClassOf(last.status.code) = "ERROR"
    /\ last.error = ErrorObj("boom")
    /\ last.env.error = Str("boom")
    /\ last.out = << >>

\* C10: the silent argument of a call decides that call's output whatever the
\* global flag is and leaves the flag as it was; a call without the argument is
\* silenced exactly when the flag is true, and the flag, false at first, is
\* changed by setSilentMode alone, to the value it is given.
C10_SilentArgumentIsPerCall ==
    /\ silentMode = FALSE
    /\ [][ /\ last'.op = "logStatus"
              => /\ silentMode' = silentMode
                 /\ last'.silent = JSTrue => last'.out = << >>
                 /\ last'.silent = JSFalse => last'.out # << >>
                 /\ last'.silent = Undefined => (last'.out = << >> <=> silentMode)
           /\ silentMode' # silentMode
              => /\ last'.op = "setSilentMode"
                 /\ last'.silent = FromBoolean(silentMode') ]_vars

C10_Witness ==
    /\ Reported
    /\ last.silent = JSFalse
    /\ silentMode
    /\ last.out # << >>

\* C11: logStatus leaves the registry as it found it: the class keys, their
\* order and every class -> code -> message entry are the same after the call
\* as before, so getStatusMessage (which reads the class's bucket) and the
\* classification of a code answer after the call what they answered before it.
C11_LogStatusReadsOnly ==
    [][ last'.op = "logStatus"
        => /\ schema' = schema
           /\ ObjectKeys(schema') = ObjectKeys(schema)
           /\ \A c \in Classes :
                 /\ HasType(schema', c) = HasType(schema, c)
                 /\ Bucket(schema', c) = Bucket(schema, c)
           /\ \A k \in ReportCodes :
                 statusTypeOf(schema', k) = statusTypeOf(schema, k) ]_vars

\* logStatus was called with a message override for a code whose entry
\* updateStatus wrote, in a registry whose SUCCESS bucket was recreated, and the
\* entry still holds the registered message
C11_Witness ==
    /\ Reported
    /\ last.status = [code |-> 201, message |-> Str("Custom")]
    /\ ObjectKeys(schema) = <<"WARN", "ERROR", "SUCCESS">>
    /\ getStatusMessage(schema, "SUCCESS", 201) = Str("Created")
    /\ last.env.status.message = Str("Custom")

====
